---- MODULE Spec2Model ----
(***************************************************************************)
(* A model of package tarski (src/tarski.go): creation and extraction of   *)
(* tar archives with extended attributes and SHA-256 stream checksums.     *)
(*                                                                         *)
(* Strings are sequences of one-character strings, so that TrimPrefix,     *)
(* Join, Split and the slicing of cleanEntry are computed, not assumed.    *)
(* A permission mode is the set of its bits; a digest is the sequence of   *)
(* blocks and bytes that was written into the hash (SHA-256 is taken to be *)
(* injective).  The archive is a sequence of tokens: one per tar header    *)
(* (with its PAX records), one per payload byte, one per padding run and   *)
(* one per zero block of the footer.                                       *)
(***************************************************************************)
EXTENDS Integers, Sequences, FiniteSets, TLC

VARIABLES
    xown,      \* xattrs of the object GetAllXattr is called on (the link itself)
    xtgt,      \* what a path-following syscall sees: [exists, link, x]
    gx,        \* the running GetAllXattr call: its locals and its result
    tree,      \* the source tree: relative path -> object
    path,      \* Create's path argument
    prefix,    \* Create's prefix argument
    cop,       \* "Create" or "CreateSHA256"
    pc,        \* where the caller is
    todo,      \* filepath.Walk: the objects still to visit, next first
    derr,      \* doCreate's error so far
    w,         \* tar writer, archive file and digest: [a, d, err, nb, pad]
    emitted,   \* the objects a header was written for, in order
    cres,      \* what Create / CreateSHA256 returned: [err, sum]
    prev,      \* the previous successful run over this tree: [set, a, sum]
    ires,      \* what IsEmpty returned: [called, empty, err]
    tampered,  \* the archive file was cut or damaged after Create wrote it
    eop,       \* "Extract" or "ExtractSHA256"
    umask,     \* the extracting process's umask
    dest,      \* the destination tree: relative path -> object
    dest0,     \* the destination tree as it was when extraction began
    rd,        \* tar reader and tee: [pos, nb, pad, d]
    hit,       \* the regular-file entries that met an existing path
    eres,      \* what Extract / ExtractSHA256 returned: [err, sum]
    fds        \* what the running or last top-level call has opened and not closed

xvars == <<xown, xtgt, gx>>
cvars == <<tree, path, prefix, cop, todo, derr, w, emitted, cres, prev>>
evars == <<eop, umask, dest, dest0, rd, hit, eres>>
vars == <<xown, xtgt, gx, tree, path, prefix, cop, pc, todo, derr, w, emitted,
          cres, prev, ires, tampered, eop, umask, dest, dest0, rd, hit, eres,
          fds>>

(***************************************************************************)
(* Bounds                                                                  *)
(***************************************************************************)
MaxValLen == 2      \* longest extended-attribute value

(***************************************************************************)
(* Strings                                                                 *)
(***************************************************************************)
NUL == "NUL"
SLASH == "/"

HasPrefix(s, p) == Len(p) <= Len(s) /\ SubSeq(s, 1, Len(p)) = p

\* strings.TrimPrefix
TrimPrefix(s, p) == IF HasPrefix(s, p) THEN SubSeq(s, Len(p) + 1, Len(s)) ELSE s

\* strings.Split(s, sep) for a one-character separator: the pieces between
\* the separators, the empty ones included.
RECURSIVE SplitFrom(_, _, _)
SplitFrom(s, sep, cur) ==
    IF s = <<>> THEN <<cur>>
    ELSE IF Head(s) = sep THEN <<cur>> \o SplitFrom(Tail(s), sep, <<>>)
    ELSE SplitFrom(Tail(s), sep, Append(cur, Head(s)))

Split(s, sep) == SplitFrom(s, sep, <<>>)

RECURSIVE Repeat(_, _)
Repeat(c, n) == IF n <= 0 THEN <<>> ELSE <<c>> \o Repeat(c, n - 1)

RECURSIVE SeqSum(_)
SeqSum(s) == IF s = <<>> THEN 0 ELSE Head(s) + SeqSum(Tail(s))

RECURSIVE Flatten(_)
Flatten(ss) == IF ss = <<>> THEN <<>> ELSE Head(ss) \o Flatten(Tail(ss))

\* All orderings of a finite set, as sequences.
RECURSIVE Perms(_)
Perms(S) ==
    IF S = {} THEN {<<>>}
    ELSE UNION {{<<e>> \o p : p \in Perms(S \ {e})} : e \in S}

(***************************************************************************)
(* Extended attributes: the system calls                                   *)
(***************************************************************************)
XNames == {<<"x">>, <<"y", "y">>}
XVals == {Repeat("v", n) : n \in 0..MaxValLen}
XMaps == UNION {[S -> XVals] : S \in SUBSET XNames}
NoXattrs == [n \in {} |-> <<>>]

\* The size of the name list: every name with its terminating NUL.
ListSize(m) == SeqSum([i \in 1..Len(CHOOSE q \in Perms(DOMAIN m) : TRUE) |->
                        Len((CHOOSE q \in Perms(DOMAIN m) : TRUE)[i]) + 1])

\* The name list as the kernel writes it, in the order ord.
ListBytes(ord) == Flatten([i \in 1..Len(ord) |-> ord[i] \o <<NUL>>])

\* llistxattr(path, list): with an empty list the size needed; ERANGE when
\* the list does not fit; else the list, in a buffer of len(list) bytes.
llistxattr(own, n, ord) ==
    IF n = 0 THEN [sz |-> ListSize(own), err |-> "nil", buf |-> <<>>]
    ELSE IF ListSize(own) > n THEN [sz |-> -1, err |-> "ERANGE", buf |-> Repeat(NUL, n)]
    ELSE [sz |-> ListSize(own), err |-> "nil",
          buf |-> ListBytes(ord) \o Repeat(NUL, n - ListSize(own))]

\* unix.Getxattr(path, attr, dest): follows symbolic links.
Getxattr(tgt, attr, n) ==
    IF ~tgt.exists THEN [sz |-> -1, err |-> "ENOENT", buf |-> <<>>]
    ELSE IF attr \notin DOMAIN tgt.x THEN [sz |-> -1, err |-> "ENODATA", buf |-> <<>>]
    ELSE IF n = 0 THEN [sz |-> Len(tgt.x[attr]), err |-> "nil", buf |-> <<>>]
    ELSE IF Len(tgt.x[attr]) > n THEN [sz |-> -1, err |-> "ERANGE", buf |-> Repeat(NUL, n)]
    ELSE [sz |-> Len(tgt.x[attr]), err |-> "nil",
          buf |-> tgt.x[attr] \o Repeat(NUL, n - Len(tgt.x[attr]))]

(***************************************************************************)
(* GetAllXattr, one system call per step                                   *)
(***************************************************************************)
GXIdle == [pc |-> "idle", pre |-> 0, split |-> <<>>, xattrs |-> NoXattrs,
           isnil |-> TRUE, err |-> "nil", mismatch |-> FALSE]

GXStart == [GXIdle EXCEPT !.pc = "list1"]

GXReturn(g, isnil, m, err) ==
    [g EXCEPT !.pc = "done", !.isnil = isnil, !.xattrs = m, !.err = err]

\* The split of the name list, its trailing empty string dropped.
SplitNames(buf) ==
    LET split == Split(buf, NUL)
    IN  IF split[Len(split)] = <<>> THEN SubSeq(split, 1, Len(split) - 1) ELSE split

\* One step of GetAllXattr from local state g, when the object's own
\* attributes are own, a path-following call sees tgt, and the kernel lists
\* names in the order ord.  mismatch records that the second call of a pair
\* ran when the size was no longer the one the first call returned.
GXStep(g, own, tgt, ord) ==
    CASE g.pc = "list1" ->
            LET r == llistxattr(own, 0, ord)
            IN  IF r.err # "nil" \/ r.sz < 0 THEN GXReturn(g, TRUE, NoXattrs, r.err)
                ELSE IF r.sz = 0 THEN GXReturn(g, TRUE, NoXattrs, "nil")
                ELSE [g EXCEPT !.pc = "list2", !.pre = r.sz]
      [] g.pc = "list2" ->
            LET r == llistxattr(own, g.pre, ord)
                h == [g EXCEPT !.mismatch = (ListSize(own) # g.pre)]
            IN  IF r.err # "nil" \/ r.sz < 0 THEN GXReturn(h, TRUE, NoXattrs, r.err)
                ELSE IF r.sz # g.pre THEN GXReturn(h, TRUE, NoXattrs, "Changed")
                ELSE IF SplitNames(r.buf) = <<>> THEN GXReturn(h, FALSE, NoXattrs, "nil")
                ELSE [h EXCEPT !.pc = "val1", !.split = SplitNames(r.buf)]
      [] g.pc = "val1" ->
            LET r == Getxattr(tgt, Head(g.split), 0)
            IN  IF r.err # "nil" \/ r.sz < 0 THEN GXReturn(g, TRUE, NoXattrs, r.err)
                ELSE IF r.sz = 0 THEN GXReturn(g, TRUE, NoXattrs, "NoValue")
                ELSE [g EXCEPT !.pc = "val2", !.pre = r.sz]
      [] g.pc = "val2" ->
            LET x == Head(g.split)
                r == Getxattr(tgt, x, g.pre)
                h == [g EXCEPT !.mismatch =
                        (tgt.exists /\ x \in DOMAIN tgt.x /\ Len(tgt.x[x]) # g.pre)]
                m == (x :> r.buf) @@ g.xattrs
            IN  IF r.err # "nil" \/ r.sz < 0 THEN GXReturn(h, TRUE, NoXattrs, r.err)
                ELSE IF r.sz # g.pre THEN GXReturn(h, TRUE, NoXattrs, "Changed")
                ELSE IF Len(g.split) = 1 THEN GXReturn(h, FALSE, m, "nil")
                ELSE [h EXCEPT !.pc = "val1", !.split = Tail(g.split), !.xattrs = m]
      [] OTHER -> g

\* GetAllXattr run to its end while nothing else touches the attributes.
RECURSIVE GXRun(_, _, _)
GXRun(g, own, tgt) ==
    IF g.pc = "done" THEN g
    ELSE GXRun(GXStep(g, own, tgt, CHOOSE q \in Perms(DOMAIN own) : TRUE), own, tgt)

GetAllXattr(own, tgt) == GXRun(GXStart, own, tgt)

(***************************************************************************)
(* The source tree                                                         *)
(***************************************************************************)
MaxPayload == 1     \* longest regular-file content, in bytes
SrcTime == 1        \* the modification time of every source object

Now == SrcTime + 1  \* the clock while an archive is extracted

AllBits == {"ur", "uw", "ux", "gw"}
ModeRW == {"ur", "uw"}
ModeRWG == {"ur", "uw", "gw"}
ModeDir == {"ur", "uw", "ux"}
ModeDirG == {"ur", "uw", "ux", "gw"}

Payloads == {Repeat("d", n) : n \in 0..MaxPayload}

Obj(t, m, o, mt, d, l, x) ==
    [type |-> t, mode |-> m, owner |-> o, mtime |-> mt, data |-> d, link |-> l,
     xattrs |-> x]
DirObj(m, x) == Obj("dir", m, "src", SrcTime, <<>>, <<>>, x)
RegObj(m, d, x) == Obj("reg", m, "src", SrcTime, d, <<>>, x)
SymObj(l, x) == Obj("sym", AllBits, "src", SrcTime, <<>>, l, x)

X1 == (<<"x">> :> <<"v">>)
X2 == (<<"x">> :> <<"v">>) @@ (<<"y", "y">> :> <<"v">>)
XEmptyVal == (<<"x">> :> <<>>)

\* The objects that may stand at t/a, t/a/c and t/b.
DirChoices == {DirObj(ModeDir, NoXattrs), DirObj(ModeDirG, X1)}
RegChoices ==
    {RegObj(ModeRW, d, NoXattrs) : d \in Payloads}
        \cup {RegObj(ModeRWG, Repeat("d", MaxPayload), X1),
              RegObj(ModeRW, <<>>, XEmptyVal)}
SymChoices == {SymObj(<<"a">>, NoXattrs), SymObj(<<"a">>, X1), SymObj(<<"z">>, NoXattrs)}

RootOnly == (<<>> :> DirObj(ModeDir, NoXattrs))

\* A file and a directory that carry two attributes.
TwoAttrChoices ==
    {(<<"b">> :> RegObj(ModeRW, <<>>, X2)), (<<"a">> :> DirObj(ModeDir, X2))}

Trees ==
    {RootOnly}
        \cup {o @@ RootOnly : o \in TwoAttrChoices}
        \cup {(<<"b">> :> b) @@ RootOnly : b \in RegChoices \cup SymChoices}
        \cup {(<<"a">> :> a) @@ RootOnly : a \in DirChoices}
        \cup {(<<"a">> :> a) @@ (<<"a", "c">> :> c) @@ RootOnly :
                a \in DirChoices, c \in RegChoices}
        \cup {(<<"a">> :> a) @@ (<<"b">> :> b) @@ RootOnly :
                a \in DirChoices, b \in SymChoices}
        \cup {(<<"a">> :> DirObj(ModeDir, NoXattrs)) @@ (<<"a", "c">> :> c)
                @@ (<<"b">> :> b) @@ RootOnly :
                c \in {RegObj(ModeRW, Repeat("d", MaxPayload), NoXattrs)},
                b \in RegChoices \cup SymChoices}

\* The names in the directory rel of tree fs.
Children(fs, rel) ==
    {p[Len(p)] : p \in {q \in DOMAIN fs : Len(q) = Len(rel) + 1
                                           /\ SubSeq(q, 1, Len(rel)) = rel}}

\* What a path-following call on the object at rel reaches: the object
\* itself, or for a symbolic link the object its target names, if any.
Follow(fs, rel) ==
    IF fs[rel].type # "sym"
    THEN [exists |-> TRUE, link |-> FALSE, x |-> fs[rel].xattrs]
    ELSE LET t == SubSeq(rel, 1, Len(rel) - 1) \o fs[rel].link
         IN  IF t \in DOMAIN fs /\ fs[t].type # "sym"
             THEN [exists |-> TRUE, link |-> TRUE, x |-> fs[t].xattrs]
             ELSE [exists |-> FALSE, link |-> TRUE, x |-> NoXattrs]

(***************************************************************************)
(* Paths                                                                   *)
(***************************************************************************)
RECURSIVE Squeeze(_)
Squeeze(s) ==
    IF Len(s) < 2 THEN s
    ELSE IF s[1] = SLASH /\ s[2] = SLASH THEN Squeeze(Tail(s))
    ELSE <<s[1]>> \o Squeeze(Tail(s))

\* filepath.Clean on paths without "." and ".." elements.
Clean(s) ==
    LET q == Squeeze(s)
    IN  IF q = <<>> THEN <<".">>
        ELSE IF Len(q) > 1 /\ q[Len(q)] = SLASH THEN SubSeq(q, 1, Len(q) - 1)
        ELSE q

\* filepath.Join(dir, name)
Join(dir, name) == Clean(dir \o <<SLASH>> \o name)

NameRank == ("a" :> 1) @@ ("b" :> 2) @@ ("c" :> 3)

\* The names as the directory read returned them, unsorted.
KeepOrder(s) == s

\* sort.Strings on one-character names, as filepath.Walk applies it to the
\* names of a directory.
RECURSIVE SortNames(_)
InsertName(n, s) ==
    LET k == Cardinality({i \in 1..Len(s) : NameRank[s[i]] <= NameRank[n]})
    IN  SubSeq(s, 1, k) \o <<n>> \o SubSeq(s, k + 1, Len(s))
SortNames(s) == IF s = <<>> THEN <<>> ELSE InsertName(Head(s), SortNames(Tail(s)))

(***************************************************************************)
(* cleanEntry                                                              *)
(***************************************************************************)
cleanEntry(isDir, curpath, pfx) ==
    LET entry == TrimPrefix(curpath, pfx)
    IN  IF entry = <<>> \/ entry = <<SLASH>> THEN entry
        ELSE LET e1 == IF SubSeq(entry, 1, 1) = <<SLASH>>
                       THEN SubSeq(entry, 2, Len(entry)) ELSE entry
             IN  IF isDir /\ SubSeq(e1, Len(e1), Len(e1)) # <<SLASH>>
                 THEN e1 \o <<SLASH>> ELSE e1

(***************************************************************************)
(* The tar writer over the archive file and, for CreateSHA256, the digest  *)
(***************************************************************************)
HdrTok(h) == [k |-> "hdr", h |-> h]
DataTok(b) == [k |-> "data", b |-> b]
PadTok == [k |-> "pad"]
ZeroTok == [k |-> "zero"]
JunkTok == [k |-> "junk"]

WriterInit == [a |-> <<>>, d |-> <<>>, err |-> "nil", nb |-> 0, pad |-> FALSE]

\* One Write on the writer's sink: the file alone (Create) or
\* io.MultiWriter(file, digest) (CreateSHA256), which stops at the first
\* writer that fails.
SinkWrite(ws, toks, sha, fail) ==
    IF fail THEN [ws EXCEPT !.err = "EIO"]
    ELSE [ws EXCEPT !.a = @ \o toks, !.d = IF sha THEN @ \o toks ELSE @]

\* tar.Writer.Flush
TarFlush(ws, sha, fail) ==
    IF ws.err # "nil" THEN ws
    ELSE IF ws.nb > 0 THEN [ws EXCEPT !.err = "MissedWriting"]
    ELSE IF ws.pad THEN [SinkWrite(ws, <<PadTok>>, sha, fail) EXCEPT !.pad = FALSE]
    ELSE ws

\* tar.Writer.WriteHeader
TarWriteHeader(ws, h, sha, fail) ==
    LET f == TarFlush(ws, sha, fail)
    IN  IF f.err # "nil" THEN f
        ELSE [SinkWrite(f, <<HdrTok(h)>>, sha, fail) EXCEPT
                 !.nb = h.size, !.pad = (h.size > 0)]

\* tar.Writer.Write, as io.Copy calls it with the whole content
TarWrite(ws, bytes, sha, fail) ==
    IF ws.err # "nil" THEN ws
    ELSE IF Len(bytes) > ws.nb
    THEN [SinkWrite(ws, [i \in 1..ws.nb |-> DataTok(bytes[i])], sha, fail) EXCEPT
             !.nb = 0, !.err = IF fail THEN "EIO" ELSE "WriteTooLong"]
    ELSE [SinkWrite(ws, [i \in 1..Len(bytes) |-> DataTok(bytes[i])], sha, fail) EXCEPT
             !.nb = IF fail THEN @ ELSE @ - Len(bytes)]

\* tar.Writer.Close: flush, then the footer of two zero blocks.  The
\* result carries the error Close returns in cerr.
TarClose(ws, sha, fail) ==
    IF ws.err = "Closed" THEN [ws |-> ws, cerr |-> "nil"]
    ELSE IF ws.err # "nil" THEN [ws |-> ws, cerr |-> ws.err]
    ELSE LET f == TarFlush(ws, sha, fail)
         IN  IF f.err # "nil" THEN [ws |-> f, cerr |-> f.err]
             ELSE LET z == SinkWrite(f, <<ZeroTok, ZeroTok>>, sha, fail)
                  IN  IF z.err # "nil" THEN [ws |-> z, cerr |-> z.err]
                      ELSE [ws |-> [z EXCEPT !.err = "Closed"], cerr |-> "nil"]

(***************************************************************************)
(* WriteHeader and the walk function of doCreate                           *)
(***************************************************************************)
Faults == {"none", "walk", "open", "read", "write"}

\* tar.FileInfoHeader(f, link), then h.Name and h.Xattrs as WriteHeader
\* sets them.
FileInfoHeader(o, entry, xattrs) ==
    [name |-> entry, type |-> o.type, mode |-> o.mode, uid |-> o.owner,
     mtime |-> o.mtime, size |-> IF o.type = "reg" THEN Len(o.data) ELSE 0,
     link |-> IF o.type = "sym" THEN o.link ELSE <<>>, xattrs |-> xattrs]

\* WriteHeader(w, path, entry, f): [ws, err]
WriteHeader(ws, fs, rel, entry, sha, fault) ==
    LET g == GetAllXattr(fs[rel].xattrs, Follow(fs, rel))
    IN  IF g.err # "nil" THEN [ws |-> ws, err |-> g.err]
        ELSE LET n == TarWriteHeader(ws, FileInfoHeader(fs[rel], entry, g.xattrs),
                                     sha, fault = "write")
             IN  [ws |-> n, err |-> n.err]

\* What a call holds open: the archive file, the tar writer, a source file
\* opened for its payload, a destination file opened for writing.
ArchiveFile == <<"archive">>
TarWriter == <<"tar.Writer">>
SrcFile(rel) == <<"src">> \o rel
DstFile(rel) == <<"dst">> \o rel

\* The function doCreate hands to filepath.Walk, for the object at rel
\* visited as curpath: [ws, err, wrote, held]; held is the source file when
\* the function returns without having closed it.
WalkFn(ws, fs, rel, curpath, pfx, sha, fault) ==
    IF fault = "walk" THEN [ws |-> ws, err |-> "EWalk", wrote |-> FALSE, held |-> {}]
    ELSE LET s == cleanEntry(fs[rel].type = "dir", curpath, pfx)
         IN  IF s = <<>> THEN [ws |-> ws, err |-> "nil", wrote |-> FALSE, held |-> {}]
             ELSE LET hd == WriteHeader(ws, fs, rel, s, sha, fault)
                  IN  IF hd.err # "nil"
                      THEN [ws |-> hd.ws, err |-> hd.err, wrote |-> FALSE, held |-> {}]
                      ELSE IF fs[rel].type \in {"sym", "dir"}
                      THEN [ws |-> hd.ws, err |-> "nil", wrote |-> TRUE, held |-> {}]
                      ELSE IF fault = "open"
                      THEN [ws |-> hd.ws, err |-> "EOpen", wrote |-> TRUE, held |-> {}]
                      ELSE IF fault = "read"
                      THEN [ws |-> hd.ws, err |-> "ERead", wrote |-> TRUE,
                            held |-> {SrcFile(rel)}]
                      ELSE LET c == TarWrite(hd.ws, fs[rel].data, sha, FALSE)
                           IN  [ws |-> c, err |-> c.err, wrote |-> TRUE,
                                held |-> IF c.err # "nil" THEN {SrcFile(rel)} ELSE {}]

(***************************************************************************)
(* Create and CreateSHA256                                                 *)
(***************************************************************************)
Str_t == <<"t">>
Str_tslash == <<"t", "/">>
PathArgs == {Str_t, Str_tslash}
PrefixArgs == {<<>>, Str_t, Str_tslash, <<"t", "/", "a">>}

NoResult == [err |-> "none", sum |-> <<>>, isnil |-> TRUE]
NoPrev == [set |-> FALSE, a |-> <<>>, sum |-> <<>>]

\* sha256.Sum over what was written into the hash
Sum(d) == d

\* os.Create(archive) succeeded: the file is truncated, the writer set up
\* over it, and filepath.Walk is about to visit the root.
CreateBegin ==
    /\ pc \in {"idle", "again"}
    /\ pc = "idle" => cop' \in {"Create", "CreateSHA256"}
    /\ pc = "again" => cop' = cop
    /\ pc' = "walk"
    /\ w' = WriterInit
    /\ todo' = <<[p |-> path, rel |-> <<>>]>>
    /\ derr' = "nil"
    /\ emitted' = <<>>
    /\ cres' = NoResult
    /\ tampered' = FALSE
    /\ fds' = {ArchiveFile, TarWriter}
    /\ UNCHANGED <<tree, path, prefix, prev, ires>>
    /\ UNCHANGED xvars
    /\ UNCHANGED evars

\* filepath.Walk visits the next object: the walk function runs on it, and
\* the sorted names of a visited directory are put before what remains.
Visit ==
    /\ pc = "walk"
    /\ derr = "nil"
    /\ todo # <<>>
    /\ \E fault \in Faults, ord \in Perms(Children(tree, Head(todo).rel)) :
          LET it == Head(todo)
              r == WalkFn(w, tree, it.rel, it.p, prefix, cop = "CreateSHA256", fault)
              names == SortNames(ord)
              kids == [i \in 1..Len(names) |->
                         [p |-> Join(it.p, <<names[i]>>),
                          rel |-> Append(it.rel, names[i])]]
          IN  /\ w' = r.ws
              /\ derr' = r.err
              /\ fds' = fds \cup r.held
              /\ emitted' = IF r.wrote THEN Append(emitted, it.rel) ELSE emitted
              /\ todo' = IF r.err # "nil" THEN Tail(todo)
                         ELSE IF tree[it.rel].type = "dir" THEN kids \o Tail(todo)
                         ELSE Tail(todo)
    /\ UNCHANGED <<tree, path, prefix, cop, pc, cres, prev, ires, tampered>>
    /\ UNCHANGED xvars
    /\ UNCHANGED evars

\* Create after doCreate has returned: err = doCreate(...), then
\* if err = w.Close(); err != nil { return }, then return.  closed is what
\* the call's Close calls, the deferred one included, have released.
CreateReturn(ws, de, fail) ==
    LET c == TarClose(ws, FALSE, fail)
    IN  [ws |-> c.ws, res |-> [err |-> c.cerr, sum |-> <<>>, isnil |-> TRUE],
         closed |-> {ArchiveFile, TarWriter}]

\* CreateSHA256 reading the digest before it closes the tar writer.
CreateSHA256SumsBeforeClose(ws, de, fail) ==
    IF de # "nil"
    THEN [ws |-> ws, res |-> [err |-> de, sum |-> <<>>, isnil |-> TRUE],
          closed |-> {ArchiveFile}]
    ELSE LET c == TarClose(ws, TRUE, fail)
         IN  IF c.cerr # "nil"
             THEN [ws |-> c.ws, res |-> [err |-> c.cerr, sum |-> <<>>, isnil |-> TRUE],
                   closed |-> {ArchiveFile, TarWriter}]
             ELSE [ws |-> c.ws,
                   res |-> [err |-> "nil", sum |-> Sum(ws.d), isnil |-> FALSE],
                   closed |-> {ArchiveFile, TarWriter}]

\* CreateSHA256 after doCreate has returned.
CreateSHA256Return(ws, de, fail) ==
    IF de # "nil"
    THEN [ws |-> ws, res |-> [err |-> de, sum |-> <<>>, isnil |-> TRUE],
          closed |-> {ArchiveFile}]
    ELSE LET c == TarClose(ws, TRUE, fail)
         IN  IF c.cerr # "nil"
             THEN [ws |-> c.ws, res |-> [err |-> c.cerr, sum |-> <<>>, isnil |-> TRUE],
                   closed |-> {ArchiveFile, TarWriter}]
             ELSE [ws |-> c.ws,
                   res |-> [err |-> "nil", sum |-> Sum(c.ws.d), isnil |-> FALSE],
                   closed |-> {ArchiveFile, TarWriter}]

\* doCreate has returned (the walk is over, or an error ended it) and the
\* caller finishes.
CreateEnd ==
    /\ pc = "walk"
    /\ derr # "nil" \/ todo = <<>>
    /\ \E fail \in BOOLEAN :
          LET r == IF cop = "Create" THEN CreateReturn(w, derr, fail)
                   ELSE CreateSHA256Return(w, derr, fail)
          IN  /\ w' = r.ws
              /\ cres' = r.res
              /\ fds' = fds \ r.closed
    /\ pc' = "cdone"
    /\ UNCHANGED <<tree, path, prefix, cop, todo, derr, emitted, prev, ires, tampered>>
    /\ UNCHANGED xvars
    /\ UNCHANGED evars

\* A second run over the unchanged tree, with the same arguments, after a
\* run that met no error: the first run's archive and checksum are kept
\* for comparison.
CreateAgain ==
    /\ pc = "cdone"
    /\ ~prev.set
    /\ ~tampered
    /\ derr = "nil" /\ cres.err = "nil"
    /\ prev' = [set |-> TRUE, a |-> w.a, sum |-> cres.sum]
    /\ pc' = "again"
    /\ UNCHANGED <<tree, path, prefix, cop, todo, derr, w, emitted, cres, ires, tampered,
                   fds>>
    /\ UNCHANGED xvars
    /\ UNCHANGED evars

(***************************************************************************)
(* The tar reader over the archive file and, for ExtractSHA256, the tee    *)
(***************************************************************************)
ReaderInit == [pos |-> 0, nb |-> 0, pad |-> FALSE, d |-> <<>>, err |-> "nil"]

\* How many of the next n tokens after pos are there and of these kinds.
RECURSIVE Run(_, _, _, _)
Run(arch, pos, n, kinds) ==
    IF n <= 0 \/ pos + 1 > Len(arch) THEN 0
    ELSE IF arch[pos + 1].k \notin kinds THEN 0
    ELSE 1 + Run(arch, pos + 1, n - 1, kinds)

\* Read up to n tokens of these kinds from the file, through io.TeeReader
\* when sha: [r, got], got the tokens read.
ReadToks(r, arch, n, kinds, sha) ==
    LET j == Run(arch, r.pos, n, kinds)
        got == SubSeq(arch, r.pos + 1, r.pos + j)
    IN  [r |-> [r EXCEPT !.pos = @ + j, !.d = IF sha THEN @ \o got ELSE @],
         got |-> got]

AnyKind == {"hdr", "data", "pad", "zero", "junk"}

\* A reader that takes the first zero block for the end of the archive.
ReadHeaderStopsAtZeroBlock(r, arch, sha) ==
    LET b1 == ReadToks(r, arch, 1, AnyKind, sha)
    IN  IF b1.got = <<>> \/ b1.got[1].k = "zero"
        THEN [r |-> b1.r, err |-> "EOF", h |-> <<>>]
        ELSE IF b1.got[1].k = "hdr"
        THEN [r |-> [b1.r EXCEPT !.nb = b1.got[1].h.size,
                                 !.pad = (b1.got[1].h.size > 0)],
              err |-> "nil", h |-> <<b1.got[1].h>>]
        ELSE [r |-> b1.r, err |-> "ErrHeader", h |-> <<>>]

\* tar.Reader.readHeader: one block; after a zero block a second one.
\* Two zero blocks, or the end of the file where a block should start, are
\* io.EOF.
ReadHeader(r, arch, sha) ==
    LET b1 == ReadToks(r, arch, 1, AnyKind, sha)
    IN  IF b1.got = <<>> THEN [r |-> b1.r, err |-> "EOF", h |-> <<>>]
        ELSE IF b1.got[1].k = "zero"
        THEN LET b2 == ReadToks(b1.r, arch, 1, AnyKind, sha)
             IN  IF b2.got = <<>> \/ b2.got[1].k = "zero"
                 THEN [r |-> b2.r, err |-> "EOF", h |-> <<>>]
                 ELSE [r |-> b2.r, err |-> "ErrHeader", h |-> <<>>]
        ELSE IF b1.got[1].k = "hdr"
        THEN [r |-> [b1.r EXCEPT !.nb = b1.got[1].h.size,
                                 !.pad = (b1.got[1].h.size > 0)],
              err |-> "nil", h |-> <<b1.got[1].h>>]
        ELSE [r |-> b1.r, err |-> "ErrHeader", h |-> <<>>]

\* tar.Reader.Next: discard what is left of the current entry and its
\* padding, then read the next header.  An error sticks to the reader.
TarNext(r, arch, sha) ==
    IF r.err # "nil" THEN [r |-> r, err |-> r.err, h |-> <<>>]
    ELSE LET s == ReadToks(r, arch, r.nb, {"data"}, sha)
         IN  IF Len(s.got) < r.nb
             THEN [r |-> [s.r EXCEPT !.err = "UnexpectedEOF"],
                   err |-> "UnexpectedEOF", h |-> <<>>]
             ELSE LET p == ReadToks(s.r, arch, IF r.pad THEN 1 ELSE 0, {"pad"}, sha)
                  IN  IF r.pad /\ p.got = <<>>
                      THEN [r |-> [p.r EXCEPT !.err = "EOF"], err |-> "EOF", h |-> <<>>]
                      ELSE LET n == ReadHeader([p.r EXCEPT !.nb = 0, !.pad = FALSE],
                                               arch, sha)
                           IN  [n EXCEPT !.r.err = IF n.err = "nil" THEN "nil" ELSE n.err]

\* tar.Reader.Read until the entry's end, as io.Copy(g, r) drives it:
\* [r, got, err].
TarReadAll(r, arch, sha) ==
    LET s == ReadToks(r, arch, r.nb, {"data"}, sha)
    IN  [r |-> [s.r EXCEPT !.nb = @ - Len(s.got)],
         got |-> [i \in 1..Len(s.got) |-> s.got[i].b],
         err |-> IF Len(s.got) < r.nb THEN "UnexpectedEOF" ELSE "nil"]

(***************************************************************************)
(* IsEmpty                                                                 *)
(***************************************************************************)
NoIsEmpty == [called |-> FALSE, empty |-> FALSE, err |-> "nil"]

\* IsEmpty taking every failed header read for an empty archive.
IsEmptyOnAnyError(arch) ==
    LET n == TarNext(ReaderInit, arch, FALSE)
    IN  IF n.err # "nil" THEN [called |-> TRUE, empty |-> TRUE, err |-> "nil"]
        ELSE [called |-> TRUE, empty |-> FALSE, err |-> n.err]

\* IsEmpty(archive): the first header read decides.
IsEmpty(arch) ==
    LET n == TarNext(ReaderInit, arch, FALSE)
    IN  IF n.err = "EOF" THEN [called |-> TRUE, empty |-> TRUE, err |-> "nil"]
        ELSE [called |-> TRUE, empty |-> FALSE, err |-> n.err]

\* A caller asks IsEmpty about the archive file.
IsEmptyCall ==
    /\ pc = "cdone"
    /\ ~prev.set
    /\ ires' = IsEmpty(w.a)
    /\ pc' = "idone"
    /\ UNCHANGED <<tampered, fds>>
    /\ UNCHANGED cvars
    /\ UNCHANGED xvars
    /\ UNCHANGED evars

\* The archive file of a finished run is cut short, or one of its blocks
\* is overwritten, before it is read back.
Tamper ==
    /\ pc = "cdone"
    /\ ~tampered
    /\ ~prev.set
    /\ derr = "nil" /\ cres.err = "nil"
    /\ \/ \E k \in 0..(Len(w.a) - 1) : w' = [w EXCEPT !.a = SubSeq(w.a, 1, k)]
       \/ \E k \in 1..Len(w.a) :
             /\ w.a[k].k \in {"hdr", "zero"}
             /\ w' = [w EXCEPT !.a[k] = JunkTok]
    /\ tampered' = TRUE
    /\ UNCHANGED <<tree, path, prefix, cop, todo, derr, emitted, cres, prev, pc, ires,
                   fds>>
    /\ UNCHANGED xvars
    /\ UNCHANGED evars

(***************************************************************************)
(* The destination tree and the system calls that change it                *)
(***************************************************************************)
Parent(rel) == SubSeq(rel, 1, Len(rel) - 1)

\* filepath.Join(path, name) below the destination root: the non-empty
\* elements of name.
RelOf(name) ==
    LET parts == Split(name, SLASH)
        keep == SelectSeq(parts, LAMBDA c : c # <<>>)
    IN  [i \in 1..Len(keep) |-> keep[i][1]]

\* filepath.Join(path, filepath.Dir(name))
DirOf(name) == LET r == RelOf(name) IN IF r = <<>> THEN <<>> ELSE Parent(r)

\* Creating or removing a name in a directory sets the directory's mtime.
Touch(fs, rel) ==
    IF rel \in DOMAIN fs THEN [fs EXCEPT ![rel].mtime = Now] ELSE fs

AddObj(fs, rel, o) ==
    IF rel = <<>> THEN (rel :> o) @@ fs ELSE Touch((rel :> o) @@ fs, Parent(rel))

\* os.MkdirAll(path, perm): [fs, err]
RECURSIVE MkdirAll(_, _, _, _)
MkdirAll(fs, rel, perm, um) ==
    IF rel \in DOMAIN fs
    THEN [fs |-> fs, err |-> IF fs[rel].type = "dir" THEN "nil" ELSE "ENOTDIR"]
    ELSE LET up == IF rel = <<>> THEN [fs |-> fs, err |-> "nil"]
                   ELSE MkdirAll(fs, Parent(rel), perm, um)
         IN  IF up.err # "nil" THEN up
             ELSE [fs |-> AddObj(up.fs, rel,
                                 Obj("dir", perm \ um, "me", Now, <<>>, <<>>, NoXattrs)),
                   err |-> "nil"]

\* os.OpenFile without O_EXCL and with O_TRUNC: an existing file is opened
\* and emptied.
OpenTruncating(fs, rel, perm, um) ==
    IF rel \in DOMAIN fs /\ fs[rel].type = "dir" THEN [fs |-> fs, err |-> "EISDIR"]
    ELSE IF rel \in DOMAIN fs
    THEN [fs |-> [fs EXCEPT ![rel].data = <<>>, ![rel].mtime = Now], err |-> "nil"]
    ELSE [fs |-> AddObj(fs, rel, Obj("reg", perm \ um, "me", Now, <<>>, <<>>, NoXattrs)),
          err |-> "nil"]

\* os.OpenFile(name, O_EXCL|O_WRONLY|O_CREATE, perm): [fs, err]
OpenExcl(fs, rel, perm, um) ==
    IF rel \in DOMAIN fs THEN [fs |-> fs, err |-> "EEXIST"]
    ELSE [fs |-> AddObj(fs, rel, Obj("reg", perm \ um, "me", Now, <<>>, <<>>, NoXattrs)),
          err |-> "nil"]

\* os.Symlink(oldname, newname): [fs, err]
Symlink(fs, target, rel) ==
    IF rel \in DOMAIN fs THEN [fs |-> fs, err |-> "EEXIST"]
    ELSE [fs |-> AddObj(fs, rel, Obj("sym", AllBits, "me", Now, <<>>, target, NoXattrs)),
          err |-> "nil"]

\* os.Chown / os.Lchown
Chown(fs, rel, uid) == [fs EXCEPT ![rel].owner = uid]

\* The loop of unix.Setxattr calls over the header's map, which Go ranges
\* over in no fixed order: the calls for the names in ok succeed; when ok
\* leaves a name out, the call for one of the names left out fails and the
\* loop returns its error: [fs, err]
SetAllXattr(fs, rel, xattrs, ok) ==
    [fs |-> [fs EXCEPT ![rel].xattrs = [n \in ok |-> xattrs[n]] @@ @],
     err |-> IF ok = DOMAIN xattrs THEN "nil" ELSE "ESetxattr"]

\* os.Chtimes / unix.UtimesNanoAt
Chtimes(fs, rel, mt) == [fs EXCEPT ![rel].mtime = mt]

\* File.Write of the copied payload
WriteData(fs, rel, bytes) ==
    IF bytes = <<>> THEN fs ELSE [fs EXCEPT ![rel].data = @ \o bytes, ![rel].mtime = Now]

(***************************************************************************)
(* ExtractDir, ExtractReg, ExtractSymlink: [fs, r, err, held]; held is the *)
(* destination file when the function returns without having closed it    *)
(***************************************************************************)
\* What follows the Setxattr loop, whose outcome is x: its error is
\* returned, else the times are set.
AfterSetxattr(x, r, entry, mt) ==
    IF x.err # "nil" THEN [fs |-> x.fs, r |-> r, err |-> x.err, held |-> {}]
    ELSE [fs |-> Chtimes(x.fs, entry, mt), r |-> r, err |-> "nil", held |-> {}]

ExtractDir(fs, h, um, r, ok) ==
    LET entry == RelOf(h.name)
        m == MkdirAll(fs, entry, h.mode, um)
    IN  IF m.err # "nil" THEN [fs |-> m.fs, r |-> r, err |-> m.err, held |-> {}]
        ELSE AfterSetxattr(SetAllXattr(Chown(m.fs, entry, h.uid), entry, h.xattrs, ok),
                           r, entry, h.mtime)

ExtractReg(fs, h, um, r, arch, sha, ok) ==
    LET entry == RelOf(h.name)
        m == MkdirAll(fs, DirOf(h.name), h.mode, um)
    IN  IF m.err # "nil" THEN [fs |-> m.fs, r |-> r, err |-> m.err, held |-> {}]
        ELSE LET g == OpenExcl(m.fs, entry, h.mode, um)
             IN  IF g.err # "nil" THEN [fs |-> g.fs, r |-> r, err |-> g.err, held |-> {}]
                 ELSE LET c == TarReadAll(r, arch, sha)
                          f == WriteData(g.fs, entry, c.got)
                      IN  IF c.err # "nil"
                          THEN [fs |-> f, r |-> c.r, err |-> c.err,
                                held |-> {DstFile(entry)}]
                          ELSE IF Len(c.got) # h.size
                          THEN [fs |-> f, r |-> c.r, err |-> "ShortWrite",
                                held |-> {DstFile(entry)}]
                          ELSE AfterSetxattr(SetAllXattr(Chown(f, entry, h.uid), entry,
                                                         h.xattrs, ok),
                                             c.r, entry, h.mtime)

ExtractSymlink(fs, h, um, r) ==
    LET entry == RelOf(h.name)
        m == MkdirAll(fs, DirOf(h.name), h.mode, um)
    IN  IF m.err # "nil" THEN [fs |-> m.fs, r |-> r, err |-> m.err, held |-> {}]
        ELSE LET s == Symlink(m.fs, h.link, entry)
             IN  IF s.err # "nil" THEN [fs |-> s.fs, r |-> r, err |-> s.err, held |-> {}]
                 ELSE [fs |-> Chtimes(Chown(s.fs, entry, h.uid), entry, h.mtime),
                       r |-> r, err |-> "nil", held |-> {}]

(***************************************************************************)
(* doExtract, Extract and ExtractSHA256                                    *)
(***************************************************************************)
\* What doExtract returns when its loop ends on the header read's error
\* nerr (io.EOF, or a break on any other error): the loop's h, err := r.Next()
\* declares its own err, so the function's named result is still nil.
LoopExit(nerr) == "nil"

\* Extract: if err = doExtract(r, path); err != io.EOF && err != nil
\* { return err }; return nil
ExtractReturn(de) ==
    IF de # "EOF" /\ de # "nil" THEN [err |-> de, sum |-> <<>>, isnil |-> TRUE]
    ELSE [err |-> "nil", sum |-> <<>>, isnil |-> TRUE]

\* ExtractSHA256: the same, and b.Sum(nil) on success
ExtractSHA256Return(de, r) ==
    IF de # "EOF" /\ de # "nil" THEN [err |-> de, sum |-> <<>>, isnil |-> TRUE]
    ELSE [err |-> "nil", sum |-> Sum(r.d), isnil |-> FALSE]

Finish(op, de, r) ==
    IF op = "Extract" THEN ExtractReturn(de) ELSE ExtractSHA256Return(de, r)

\* The trees extraction may start from: no directory at the destination
\* path, an empty one, and ones that already hold a file.
OldFile == Obj("reg", ModeRW, "other", 0, <<"o">>, <<>>, (<<"y", "y">> :> <<"v">>))
OldDir == Obj("dir", ModeDir, "other", 0, <<>>, <<>>, NoXattrs)
DestChoices ==
    {<<>>,
     (<<>> :> OldDir),
     (<<>> :> OldDir) @@ (<<"b">> :> OldFile),
     (<<>> :> OldDir) @@ (<<"a">> :> OldDir) @@ (<<"a", "c">> :> OldFile)}
Umasks == {{}, {"gw"}}

\* os.Open(archive) succeeded and the reader is set up.
ExtractBegin ==
    /\ pc = "cdone"
    /\ eop' = IF cop = "CreateSHA256" THEN "ExtractSHA256" ELSE "Extract"
    /\ umask' \in Umasks
    /\ dest' \in DestChoices
    /\ dest0' = dest'
    /\ rd' = ReaderInit
    /\ hit' = {}
    /\ eres' = NoResult
    /\ fds' = {ArchiveFile}
    /\ pc' = "extract"
    /\ UNCHANGED <<ires, tampered>>
    /\ UNCHANGED cvars
    /\ UNCHANGED xvars

\* The header read n ended the loop: doExtract returns and so does its
\* caller, whose deferred Close releases the archive file.
LoopEnd(n) ==
    /\ rd' = n.r
    /\ eres' = Finish(eop, LoopExit(n.err), n.r)
    /\ pc' = "edone"
    /\ fds' = fds \ {ArchiveFile}
    /\ UNCHANGED <<dest, hit>>

\* The entry of header h was extracted with outcome x: an error ends the
\* call, else the loop goes on.
EntryDone(h, x) ==
    /\ rd' = x.r
    /\ dest' = x.fs
    /\ hit' = IF h.type = "reg" /\ RelOf(h.name) \in DOMAIN dest0
              THEN hit \cup {RelOf(h.name)} ELSE hit
    /\ IF x.err # "nil"
       THEN /\ eres' = Finish(eop, x.err, x.r)
            /\ fds' = (fds \cup x.held) \ {ArchiveFile}
            /\ pc' = "edone"
       ELSE /\ pc' = pc
            /\ fds' = fds \cup x.held
            /\ UNCHANGED eres

\* The body of doExtract's loop on the header read n.
LoopBody(n, sha) ==
    IF n.err # "nil" THEN LoopEnd(n)
    ELSE \E ok \in SUBSET DOMAIN n.h[1].xattrs :
            EntryDone(n.h[1],
                      CASE n.h[1].type = "dir" -> ExtractDir(dest, n.h[1], umask, n.r, ok)
                        [] n.h[1].type = "sym" -> ExtractSymlink(dest, n.h[1], umask, n.r)
                        [] OTHER -> ExtractReg(dest, n.h[1], umask, n.r, w.a, sha, ok))

\* One turn of doExtract's loop: the next header is read and its entry
\* extracted; the loop's end, or an entry's error, ends the call.
ExtractStep ==
    /\ pc = "extract"
    /\ LoopBody(TarNext(rd, w.a, eop = "ExtractSHA256"), eop = "ExtractSHA256")
    /\ UNCHANGED <<eop, umask, dest0, ires, tampered>>
    /\ UNCHANGED cvars
    /\ UNCHANGED xvars

(***************************************************************************)
(* Spec: Create or CreateSHA256, then IsEmpty, Extract or ExtractSHA256    *)
(***************************************************************************)
XattrIdle ==
    /\ xown = NoXattrs
    /\ xtgt = [exists |-> TRUE, link |-> FALSE, x |-> NoXattrs]
    /\ gx = GXIdle

ExtractIdle ==
    /\ eop = "Extract"
    /\ umask = {}
    /\ dest = <<>>
    /\ dest0 = <<>>
    /\ rd = ReaderInit
    /\ hit = {}
    /\ eres = NoResult

CreateIdle ==
    /\ cop = "Create"
    /\ pc = "idle"
    /\ todo = <<>>
    /\ derr = "nil"
    /\ fds = {}
    /\ w = WriterInit
    /\ emitted = <<>>
    /\ cres = NoResult
    /\ prev = NoPrev
    /\ ires = NoIsEmpty
    /\ tampered = FALSE

\* The archive is built with the walked path as the prefix, as the
\* package's tests do, or with the path's trailing separator left off it.
Init ==
    /\ tree \in Trees
    /\ \E pp \in {<<Str_t, Str_t>>, <<Str_tslash, Str_tslash>>,
                   <<Str_tslash, Str_t>>} :
          path = pp[1] /\ prefix = pp[2]
    /\ CreateIdle
    /\ ExtractIdle
    /\ XattrIdle

Next ==
    \/ CreateBegin
    \/ Visit
    \/ CreateEnd
    \/ Tamper
    \/ ExtractBegin
    \/ ExtractStep

Spec == Init /\ [][Next]_vars

(***************************************************************************)
(* SpecCreate: two runs of Create or CreateSHA256 over one tree            *)
(***************************************************************************)
InitCreate ==
    /\ tree \in Trees
    /\ path \in PathArgs
    /\ prefix \in PrefixArgs
    /\ CreateIdle
    /\ ExtractIdle
    /\ XattrIdle

NextCreate ==
    \/ CreateBegin
    \/ Visit
    \/ CreateEnd
    \/ CreateAgain
    \/ Tamper
    \/ IsEmptyCall

SpecCreate == InitCreate /\ [][NextCreate]_vars

(***************************************************************************)
(* SpecXattr: one GetAllXattr call against concurrent attribute changes    *)
(***************************************************************************)
\* What a symbolic link may point at: an object with attributes of its
\* own, or nothing.
XTargets ==
    {[exists |-> TRUE, link |-> TRUE, x |-> m] : m \in XMaps}
        \cup {[exists |-> FALSE, link |-> TRUE, x |-> NoXattrs]}

\* The path names a file, or a symbolic link to one of XTargets.
InitXattr ==
    /\ xown \in XMaps
    /\ xtgt \in {[exists |-> TRUE, link |-> FALSE, x |-> xown]} \cup XTargets
    /\ gx = GXIdle
    /\ tree = RootOnly
    /\ path = Str_t
    /\ prefix = Str_t
    /\ CreateIdle
    /\ ExtractIdle

\* A caller enters GetAllXattr(path).
GXCall ==
    /\ gx.pc = "idle"
    /\ gx' = GXStart
    /\ UNCHANGED <<xown, xtgt, pc, ires, tampered, fds>>
    /\ UNCHANGED cvars
    /\ UNCHANGED evars

\* GetAllXattr issues its next system call and acts on the result.
GXSyscall ==
    /\ gx.pc \in {"list1", "list2", "val1", "val2"}
    /\ \E ord \in Perms(DOMAIN xown) : gx' = GXStep(gx, xown, xtgt, ord)
    /\ UNCHANGED <<xown, xtgt, pc, ires, tampered, fds>>
    /\ UNCHANGED cvars
    /\ UNCHANGED evars

\* Another process sets an attribute of the file (setxattr).
EnvSetxattr ==
    /\ gx.pc \in {"list1", "list2", "val1", "val2"}
    /\ ~xtgt.link
    /\ \E n \in XNames, v \in XVals :
          /\ xown' = (n :> v) @@ xown
          /\ xown' # xown
    /\ xtgt' = [xtgt EXCEPT !.x = xown']
    /\ UNCHANGED <<gx, pc, ires, tampered, fds>>
    /\ UNCHANGED cvars
    /\ UNCHANGED evars

\* Another process removes an attribute of the file (removexattr).
EnvRemovexattr ==
    /\ gx.pc \in {"list1", "list2", "val1", "val2"}
    /\ ~xtgt.link
    /\ \E n \in DOMAIN xown : xown' = [k \in DOMAIN xown \ {n} |-> xown[k]]
    /\ xtgt' = [xtgt EXCEPT !.x = xown']
    /\ UNCHANGED <<gx, pc, ires, tampered, fds>>
    /\ UNCHANGED cvars
    /\ UNCHANGED evars

NextXattr == GXCall \/ GXSyscall \/ EnvSetxattr \/ EnvRemovexattr

SpecXattr == InitXattr /\ [][NextXattr]_vars

(***************************************************************************)
(* Properties                                                              *)
(***************************************************************************)
Headers(arch) == SelectSeq(arch, LAMBDA t : t.k = "hdr")
CreateOk == cres.err = "nil" /\ derr = "nil" /\ ~tampered
FreshDest == DOMAIN dest0 \subseteq {<<>>}

\* C1: after Create(archive, T, T) and Extract(archive, D) into a fresh D
\* have both succeeded, every object of T is in D under the same relative
\* name, with the same type, mode bits, symlink target and extended
\* attributes.
C1_RoundTrip ==
    (pc = "edone" /\ eres.err = "nil" /\ CreateOk /\ prefix = path /\ FreshDest)
        => \A rel \in DOMAIN tree \ {<<>>} :
              /\ rel \in DOMAIN dest
              /\ dest[rel].type = tree[rel].type
              /\ dest[rel].mode = tree[rel].mode
              /\ dest[rel].link = tree[rel].link
              /\ dest[rel].xattrs = tree[rel].xattrs

\* C2: when CreateSHA256 succeeds, the digest it returns is the SHA-256 of
\* the bytes of the archive file, footer included, and it is taken after
\* the tar writer was closed.
C2_ChecksumIsStreamHash ==
    (cop = "CreateSHA256" /\ cres.err = "nil" /\ ~tampered)
        => /\ ~cres.isnil
           /\ cres.sum = Sum(w.a)
           /\ w.err = "Closed"
           /\ Len(w.a) >= 2
           /\ w.a[Len(w.a)] = ZeroTok /\ w.a[Len(w.a) - 1] = ZeroTok

C2_Witness ==
    /\ cop = "CreateSHA256" /\ cres.err = "nil" /\ ~tampered
    /\ \E i \in 1..Len(w.a) : w.a[i].k = "data"
    /\ \E i \in 1..Len(w.a) : w.a[i].k = "pad"
    /\ Len(Headers(w.a)) >= 2

\* C3: ExtractSHA256 on the archive of a successful CreateSHA256 returns
\* the digest CreateSHA256 returned: the decoder has pulled every byte of
\* the file through the tee.
C3_ExtractionSymmetry ==
    (pc = "edone" /\ eop = "ExtractSHA256" /\ eres.err = "nil"
       /\ cop = "CreateSHA256" /\ cres.err = "nil" /\ ~tampered)
        => /\ ~eres.isnil
           /\ eres.sum = cres.sum
           /\ rd.pos = Len(w.a)

C3_Witness ==
    /\ pc = "edone" /\ eop = "ExtractSHA256" /\ eres.err = "nil"
    /\ cop = "CreateSHA256" /\ cres.err = "nil" /\ ~tampered
    /\ \E i \in 1..Len(w.a) : w.a[i].k = "data"
    /\ \E i \in 1..Len(w.a) : w.a[i].k = "hdr" /\ w.a[i].h.type = "sym"

\* C4: when doCreate fails at an entry, Create and CreateSHA256 return a
\* non-nil error.
C4_FailureIsReported ==
    (pc = "cdone" /\ derr # "nil") => cres.err # "nil"

\* C5: Extract and ExtractSHA256 return success only when the header loop
\* ended on end-of-stream; any other error of a header read is returned.
C5_OnlyEOFIsBenign ==
    pc = "edone"
        => /\ eres.err = "nil" => rd.err = "EOF"
           /\ rd.err \notin {"nil", "EOF"} => eres.err = rd.err

\* C6: when a regular-file entry meets an existing path in the
\* destination, Extract fails at that entry with the exclusive create's
\* error and the file that was there keeps its content, mode, owner,
\* extended attributes and modification time.
C6_NoOverwrite ==
    /\ hit # {} => /\ pc = "edone"
                   /\ eres.err = "EEXIST"
                   /\ \A p \in hit : p \in DOMAIN dest /\ dest[p] = dest0[p]
    /\ pc \in {"extract", "edone"}
          => \A p \in DOMAIN dest0 :
                dest0[p].type = "reg" => p \in DOMAIN dest /\ dest[p] = dest0[p]

C6_Witness ==
    /\ pc = "edone"
    /\ eres.err = "EEXIST"
    /\ \E p \in hit : dest0[p].type = "reg" /\ dest0[p].data # <<>>

\* C7: whenever the second call of a size/fetch pair of GetAllXattr runs
\* after the size has changed, GetAllXattr returns the "changed during
\* retrieval" error and a nil map.
C7_ChangedDuringRetrieval ==
    (gx.pc = "done" /\ gx.mismatch) => gx.err = "Changed" /\ gx.isnil

\* The claims' own account of the walk: depth-first, a directory before
\* its contents, siblings in lexical name order.
LexOrder(S) ==
    CHOOSE q \in Perms(S) : \A i \in 1..(Len(q) - 1) : NameRank[q[i]] < NameRank[q[i + 1]]

RECURSIVE DepthFirst(_, _)
DepthFirst(fs, rel) ==
    IF fs[rel].type # "dir" THEN <<rel>>
    ELSE LET names == LexOrder(Children(fs, rel))
         IN  <<rel>> \o Flatten([i \in 1..Len(names) |->
                                    DepthFirst(fs, Append(rel, names[i]))])

\* The path filepath.Walk visits the object at rel by.
RECURSIVE VisitedPath(_)
VisitedPath(rel) ==
    IF rel = <<>> THEN path
    ELSE Clean(VisitedPath(Parent(rel))) \o <<SLASH, rel[Len(rel)]>>

\* The visited path with the prefix stripped, without the separator it
\* begins with, and for a directory with a separator at its end.
StrippedName(rel) ==
    LET s == TrimPrefix(VisitedPath(rel), prefix)
        t == IF s # <<>> /\ s[1] = SLASH THEN Tail(s) ELSE s
    IN  IF tree[rel].type = "dir" /\ (t = <<>> \/ t[Len(t)] # SLASH)
        THEN t \o <<SLASH>> ELSE t

Count(s, e) == Cardinality({i \in 1..Len(s) : s[i] = e})
BelowRoot(s) == SelectSeq(s, LAMBDA rel : rel # <<>>)
SecondRunOk == pc = "cdone" /\ prev.set /\ CreateOk

\* C8 as stated: a successful Create emits exactly one header for each
\* object below the root, depth-first, a directory before its contents,
\* siblings in lexical order, each named by its stripped path; a second run
\* over the unchanged tree emits the same archive and checksum.
C8_OneHeaderPerObject ==
    (pc = "cdone" /\ CreateOk)
        => /\ \A rel \in DOMAIN tree \ {<<>>} : Count(emitted, rel) = 1
           /\ BelowRoot(emitted) = BelowRoot(DepthFirst(tree, <<>>))
           /\ \A i \in 1..Len(emitted) :
                 Headers(w.a)[i].h.name = StrippedName(emitted[i])
           /\ prev.set => w.a = prev.a /\ cres.sum = prev.sum

\* C8, amended: a successful Create emits exactly one header for each
\* object below the root whose visited path is not the prefix itself (that
\* object is skipped), in the depth-first lexical order, each named by its
\* stripped path; a second run over the unchanged tree emits the same
\* archive and checksum.
C8_DeterministicOrder ==
    (pc = "cdone" /\ CreateOk)
        => /\ \A rel \in DOMAIN tree \ {<<>>} :
                 Count(emitted, rel) = IF VisitedPath(rel) = prefix THEN 0 ELSE 1
           /\ BelowRoot(emitted) =
                 SelectSeq(BelowRoot(DepthFirst(tree, <<>>)),
                           LAMBDA rel : VisitedPath(rel) # prefix)
           /\ Len(Headers(w.a)) = Len(emitted)
           /\ \A i \in 1..Len(emitted) :
                 Headers(w.a)[i].h.name = StrippedName(emitted[i])
           /\ prev.set => w.a = prev.a /\ cres.sum = prev.sum

C8_Witness ==
    /\ SecondRunOk
    /\ cop = "CreateSHA256"
    /\ BelowRoot(emitted) = <<<<"a">>, <<"a", "c">>, <<"b">>>>

\* C9: an object whose path, with the prefix stripped, is empty or only
\* the separator is skipped: no header is written for it and no archive
\* entry is named "" or "/".
C9_RootNeverArchived ==
    /\ \A i \in 1..Len(w.a) :
          w.a[i].k = "hdr" => w.a[i].h.name \notin {<<>>, <<SLASH>>}
    /\ \A i \in 1..Len(emitted) :
          TrimPrefix(VisitedPath(emitted[i]), prefix) \notin {<<>>, <<SLASH>>}

BuiltFromEmptyDir == tree = RootOnly /\ CreateOk

\* C10 as stated: IsEmpty returns (true, nil) for an archive Create built
\* from an empty directory, (false, nil) for an archive with at least one
\* entry, and false with the error when the first header read fails
\* otherwise.
C10_Emptiness ==
    ires.called
        => /\ BuiltFromEmptyDir => ires.empty /\ ires.err = "nil"
           /\ (w.a # <<>> /\ w.a[1].k = "hdr") => ~ires.empty /\ ires.err = "nil"
           /\ (w.a # <<>> /\ w.a[1].k = "junk") => ~ires.empty /\ ires.err = "ErrHeader"

\* C10, amended: IsEmpty returns (true, nil) for an archive Create built
\* from an empty directory when the prefix strips the root's own path to
\* the empty name, so that the first header read hits end-of-stream;
\* (false, nil) when the first header reads; false with the error when the
\* first header read fails otherwise.
C10_EmptinessByFirstHeader ==
    ires.called
        => /\ (BuiltFromEmptyDir /\ TrimPrefix(path, prefix) = <<>>)
                 => ires.empty /\ ires.err = "nil"
           /\ (w.a = <<>> \/ (w.a[1].k = "zero" /\ (Len(w.a) = 1 \/ w.a[2].k = "zero")))
                 => ires.empty /\ ires.err = "nil"
           /\ (w.a # <<>> /\ w.a[1].k = "hdr") => ~ires.empty /\ ires.err = "nil"
           /\ (w.a # <<>> /\ w.a[1].k = "junk") => ~ires.empty /\ ires.err = "ErrHeader"
           /\ (Len(w.a) > 1 /\ w.a[1].k = "zero" /\ w.a[2].k = "junk")
                 => ~ires.empty /\ ires.err = "ErrHeader"

C10_Witness ==
    /\ ires.called /\ BuiltFromEmptyDir /\ TrimPrefix(path, prefix) = <<>>
    /\ ires.empty

\* C14: when Extract returns successfully, every directory created from a
\* directory entry has the modification time recorded in its header, also
\* when later entries were created inside it.
C14_DirMtimeSurvives ==
    (pc = "edone" /\ eres.err = "nil" /\ rd.err = "EOF" /\ CreateOk)
        => \A i \in 1..Len(w.a) :
              (w.a[i].k = "hdr" /\ w.a[i].h.type = "dir"
                 /\ RelOf(w.a[i].h.name) \notin DOMAIN dest0)
                  => dest[RelOf(w.a[i].h.name)].mtime = w.a[i].h.mtime

\* C12: when the path given to GetAllXattr is a symbolic link, the name
\* listing and every value fetch operate on the link itself: the call
\* returns the link's own attributes, whatever the link's target carries,
\* and fails only as it would for the link's own attributes (one of them
\* has an empty value).
C12_SymlinkXattrsFromLink ==
    (gx.pc = "done" /\ xtgt.link)
        => IF \E n \in DOMAIN xown : xown[n] = <<>>
           THEN gx.err = "NoValue" /\ gx.isnil
           ELSE gx.err = "nil" /\ gx.xattrs = xown

\* C11: after ExtractDir or ExtractReg has returned for an entry, the
\* extracted object carries every attribute of the header's map when the
\* call succeeded and none of them when it failed, also when a Setxattr
\* call fails after earlier ones for the entry have succeeded.
C11_XattrAllOrNothing ==
    pc \in {"extract", "edone"}
        => \A i \in 1..rd.pos :
              (/\ w.a[i].k = "hdr"
               /\ w.a[i].h.type \in {"dir", "reg"}
               /\ RelOf(w.a[i].h.name) \in DOMAIN dest
               /\ ~(w.a[i].h.type = "reg" /\ RelOf(w.a[i].h.name) \in DOMAIN dest0))
                  => \/ dest[RelOf(w.a[i].h.name)].xattrs = w.a[i].h.xattrs
                     \/ /\ dest[RelOf(w.a[i].h.name)].xattrs = NoXattrs
                        /\ pc = "edone" /\ eres.err # "nil"

\* C13: when Create, CreateSHA256, Extract or ExtractSHA256 returns, on
\* success or with an error, everything the call opened has been closed:
\* the archive file, the tar writer, every source file opened for its
\* payload and every destination file.
C13_EverythingReleased ==
    pc \in {"cdone", "edone"} => fds = {}

====
